---------------------------- MODULE Spec2Model ----------------------------
(***************************************************************************)
(* Model of python/avro_producer_app.py and python/avro_consumer_app.py:   *)
(* the start-up sequence of both scripts (environment file selection,      *)
(* configuration validation, client construction, signal handler          *)
(* installation), the producer's produce loop, the consumer's poll loop    *)
(* and the two handle_shutdown signal handlers.                            *)
(*                                                                         *)
(* A Python string is a sequence of one-character strings, held in a       *)
(* record that also tells None apart; a float is held in thousandths.      *)
(***************************************************************************)
EXTENDS Integers, Sequences, FiniteSets, TLC

(***************************************************************************)
(* Bounds of the model.                                                    *)
(***************************************************************************)
MaxRecords == 2      \* produce attempts explored in the producer loop
MaxPolls == 3        \* poll calls explored in the consumer loop
MaxSignals == 2      \* signals delivered to one process

(***************************************************************************)
(* Python values.                                                          *)
(***************************************************************************)
None == [none |-> TRUE, s |-> <<>>]

Str(s) == [none |-> FALSE, s |-> s]

\* bool(x) of an Optional[str]: None and "" are falsy
Truthy(v) == ~v.none /\ Len(v.s) > 0

UpperChars == <<"A", "B", "C", "D", "E", "F", "G", "H", "I", "J", "K", "L", "M",
                "N", "O", "P", "Q", "R", "S", "T", "U", "V", "W", "X", "Y", "Z">>

LowerChars == <<"a", "b", "c", "d", "e", "f", "g", "h", "i", "j", "k", "l", "m",
                "n", "o", "p", "q", "r", "s", "t", "u", "v", "w", "x", "y", "z">>

LowerChar(c) ==
    IF \E i \in 1..Len(UpperChars) : UpperChars[i] = c
    THEN LowerChars[CHOOSE i \in 1..Len(UpperChars) : UpperChars[i] = c]
    ELSE c

\* str.lower()
lower(s) == [i \in 1..Len(s) |-> LowerChar(s[i])]

Digits == <<"0", "1", "2", "3", "4", "5", "6", "7", "8", "9">>

IsDigit(c) == \E i \in 1..Len(Digits) : Digits[i] = c

DigitVal(c) == (CHOOSE i \in 1..Len(Digits) : Digits[i] = c) - 1

\* str.strip() of blanks
RECURSIVE lstrip(_)
lstrip(s) == IF Len(s) > 0 /\ Head(s) = " " THEN lstrip(Tail(s)) ELSE s

RECURSIVE rstrip(_)
rstrip(s) ==
    IF Len(s) > 0 /\ s[Len(s)] = " " THEN rstrip(SubSeq(s, 1, Len(s) - 1)) ELSE s

strip(s) == rstrip(lstrip(s))

AllDigits(s) == \A i \in 1..Len(s) : IsDigit(s[i])

RECURSIVE IntOf(_)
IntOf(s) ==
    IF Len(s) = 0 THEN 0
    ELSE 10 * IntOf(SubSeq(s, 1, Len(s) - 1)) + DigitVal(s[Len(s)])

\* the first three fractional digits, as thousandths
FracOf(s) ==
    LET d(i) == IF i <= Len(s) THEN DigitVal(s[i]) ELSE 0
    IN  100 * d(1) + 10 * d(2) + d(3)

DotAt(s) == IF \E i \in 1..Len(s) : s[i] = "."
            THEN CHOOSE i \in 1..Len(s) : s[i] = "." /\ \A j \in 1..(i - 1) : s[j] # "."
            ELSE 0

(***************************************************************************)
(* float(str) for decimal literals [sign] digits [. digits] (blanks        *)
(* stripped, at most three fractional digits); ok = FALSE is ValueError.   *)
(***************************************************************************)
float(str) ==
    LET t == strip(str)
        neg == Len(t) > 0 /\ Head(t) = "-"
        u == IF Len(t) > 0 /\ Head(t) \in {"-", "+"} THEN Tail(t) ELSE t
        dot == DotAt(u)
        ip == IF dot = 0 THEN u ELSE SubSeq(u, 1, dot - 1)
        fp == IF dot = 0 THEN <<>> ELSE SubSeq(u, dot + 1, Len(u))
        wellformed == /\ AllDigits(ip)
                      /\ AllDigits(fp)
                      /\ Len(ip) + Len(fp) > 0
        mag == 1000 * IntOf(ip) + FracOf(fp)
    IN  IF wellformed
        THEN [ok |-> TRUE, milli |-> IF neg THEN 0 - mag ELSE mag]
        ELSE [ok |-> FALSE, milli |-> 0]


(***************************************************************************)
(* Names and inputs.                                                       *)
(***************************************************************************)
east == <<"e", "a", "s", "t">>

west == <<"w", "e", "s", "t">>

dot_env == <<".", "e", "n", "v">>

required_vars == {"BOOTSTRAP_SERVER", "SASL_USERNAME", "SASL_PASSWORD", "TOPIC_NAME",
                  "SCHEMA_REGISTRY_URL", "SCHEMA_REGISTRY_API_KEY",
                  "SCHEMA_REGISTRY_API_SECRET"}

Keys == required_vars \cup {"CONSUMER_GROUP", "MESSAGE_INTERVAL"}

DefaultConsumerGroup == Str(<<"d", "e", "m", "o", "-", "d", "r", "-", "c", "o", "n",
                              "s", "u", "m", "e", "r", "-", "g", "r", "o", "u", "p">>)

DefaultMessageInterval == <<"1", ".", "0">>

SIGINT == "SIGINT"

SIGTERM == "SIGTERM"

Signals == {SIGINT, SIGTERM}

VARIABLES
    argv,              \* sys.argv[1:]
    files,             \* names of the files that exist in the working directory
    dotenv,            \* the key/value lines of the environment files
    ppc,               \* producer: position of the main thread
    penviron,          \* producer: os.environ
    MESSAGE_INTERVAL,  \* producer: module global, in thousandths of a second
    pconf,             \* producer: configuration each constructed client was given
    phandlers,         \* producer: signals bound to handle_shutdown
    pstack,            \* producer: running handle_shutdown frames, innermost last
    pexit,             \* producer: {} while running, {status} once terminated
    pwhy,              \* producer: what ended the process
    pwarned,           \* producer: number of [WARN] lines printed
    psignals,          \* producer: signals delivered so far
    phandled,          \* producer: handle_shutdown invocations so far
    attempts,          \* producer: calls of producer.produce so far
    pending,           \* producer: accepted records with no delivery report yet
    callbacks,         \* producer: per accepted record, the lines delivery_callback logged
    sleptSince,        \* producer: time.sleep completed since the last produce call
    flushCalls,        \* producer: calls of producer.flush so far
    flushLeft,         \* producer: records still queued when a flush returned
    cpc,               \* consumer: position of the main thread
    cenviron,          \* consumer: os.environ
    CONSUMER_GROUP,    \* consumer: module global
    cconf,             \* consumer: configuration each constructed client was given
    chandlers,         \* consumer: signals bound to handle_shutdown
    cstack,            \* consumer: running handle_shutdown frames, innermost last
    cexit,             \* consumer: {} while running, {status} once terminated
    cwhy,              \* consumer: what ended the process
    cwarned,           \* consumer: number of [WARN] lines printed
    csignals,          \* consumer: signals delivered so far
    chandled,          \* consumer: handle_shutdown invocations so far
    subscribed,        \* consumer: consumer.subscribe was called
    polls,             \* consumer: calls of consumer.poll so far
    msg,               \* consumer: the result of the last poll
    errorsLogged,      \* consumer: [ERROR] lines printed by the loop
    recordsLogged,     \* consumer: "Consumed record" lines printed
    eofSeen,           \* consumer: end-of-partition results returned by poll
    errSeen,           \* consumer: other error results returned by poll
    closeCalls,        \* consumer: calls of consumer.close so far
    pollAfterClose     \* consumer: a poll was issued after consumer.close

inputs == <<argv, files, dotenv>>

pstart == <<ppc, penviron, MESSAGE_INTERVAL, pconf, phandlers, pexit, pwhy, pwarned>>

psig == <<pstack, psignals, phandled, flushCalls, flushLeft>>

ploop == <<attempts, pending, callbacks, sleptSince>>

pvars == <<pstart, psig, ploop>>

cstart == <<cpc, cenviron, CONSUMER_GROUP, cconf, chandlers, cexit, cwhy, cwarned>>

csig == <<cstack, csignals, chandled, closeCalls, pollAfterClose>>

cloop == <<subscribed, polls, msg, errorsLogged, recordsLogged, eofSeen, errSeen>>

cvars == <<cstart, csig, cloop>>

vars == <<inputs, pvars, cvars>>

(***************************************************************************)
(* load_environment_file: the same code in both scripts.                   *)
(***************************************************************************)
\* the selector test: sys.argv[1].lower() in ["east", "west"]
ValidSelector(env_arg) == env_arg \in {east, west}

\* load_environment_file without the sys.exit(1) of its missing-file branch
load_environment_file_no_exit(av, fs) ==
    LET env_arg == lower(av[1])
        env_file == IF Len(av) > 0 THEN env_arg \o dot_env ELSE dot_env
    IN  IF Len(av) > 0 /\ ~ValidSelector(env_arg)
        THEN [exit |-> TRUE, env_file |-> dot_env, cause |-> "selector"]
        ELSE [exit |-> FALSE, env_file |-> env_file, cause |-> "none"]

\* the file the function settles on; exit = TRUE is sys.exit(1)
load_environment_file(av, fs) ==
    LET env_arg == lower(av[1])
        env_file == IF Len(av) > 0 THEN env_arg \o dot_env ELSE dot_env
    IN  IF Len(av) > 0 /\ ~ValidSelector(env_arg)
        THEN [exit |-> TRUE, env_file |-> dot_env, cause |-> "selector"]
        ELSE IF env_file \in fs
        THEN [exit |-> FALSE, env_file |-> env_file, cause |-> "none"]
        ELSE [exit |-> TRUE, env_file |-> env_file, cause |-> "file"]

\* load_dotenv(env_file): override is False, a variable already set is kept
load_dotenv(environ, file) ==
    [k \in Keys |-> IF environ[k].none THEN file[k] ELSE environ[k]]

\* os.getenv(key) and os.getenv(key, default)
getenv(environ, k) == environ[k]

getenv_default(environ, k, default) ==
    IF environ[k].none THEN Str(default) ELSE environ[k]


(***************************************************************************)
(* Python exceptions.  "except Exception" catches the subclasses of        *)
(* Exception; SystemExit and KeyboardInterrupt derive from BaseException.  *)
(***************************************************************************)
ExceptionSubclasses == {"BufferError", "KafkaException", "ValueError", "RuntimeError"}

\* a bare "except:" in place of "except Exception"
ExceptClause_bare(exc) == TRUE

\* avro_producer_app.py: "except Exception as err" around the loop body
ExceptClause(exc) == exc \in ExceptionSubclasses

\* the exit status of an exception nothing catches: SystemExit carries its
\* own code, any other traceback ends the interpreter with status 1
UncaughtStatus(exc, code) == IF exc = "SystemExit" THEN code ELSE 1

\* the signal numbers, and the status of a process a signal terminated
SignalNumber(s) == IF s = SIGINT THEN 2 ELSE 15

KilledStatus(s) == 128 + SignalNumber(s)

(***************************************************************************)
(* Producer: module level, lines 129-202.                                  *)
(***************************************************************************)
PExit(status, why) ==
    /\ pexit' = {status}
    /\ pwhy' = why
    /\ ppc' = "exited"
    /\ pstack' = <<>>

\* line 129: load_environment_file()
P_load_environment_file ==
    /\ ppc = "load" /\ pstack = <<>> /\ pexit = {}
    /\ LET r == load_environment_file(argv, files)
       IN  IF r.exit
           THEN /\ PExit(1, r.cause)
                /\ UNCHANGED penviron
           ELSE /\ penviron' = load_dotenv(penviron, dotenv)
                /\ ppc' = "getenv"
                /\ UNCHANGED <<pexit, pwhy, pstack>>
    /\ UNCHANGED <<inputs, MESSAGE_INTERVAL, pconf, phandlers, pwarned,
                   psignals, phandled, flushCalls, flushLeft, ploop, cvars>>

\* line 141: MESSAGE_INTERVAL = float(os.getenv("MESSAGE_INTERVAL", "1.0"))
message_interval(environ) ==
    float(getenv_default(environ, "MESSAGE_INTERVAL", DefaultMessageInterval).s)

\* lines 131-141: the module globals; float() may raise ValueError
P_getenv ==
    /\ ppc = "getenv" /\ pstack = <<>> /\ pexit = {}
    /\ LET f == message_interval(penviron)
       IN  IF f.ok
           THEN /\ MESSAGE_INTERVAL' = {f.milli}
                /\ ppc' = "validate"
                /\ UNCHANGED <<pexit, pwhy, pstack>>
           ELSE /\ PExit(UncaughtStatus("ValueError", 0), "ValueError")
                /\ UNCHANGED MESSAGE_INTERVAL
    /\ UNCHANGED <<inputs, penviron, pconf, phandlers, pwarned,
                   psignals, phandled, flushCalls, flushLeft, ploop, cvars>>

\* line 154: [var for var in required_vars if os.getenv(var) is None]
missing_vars_producer(environ) ==
    {var \in required_vars : getenv(environ, var).none}

\* lines 154-157
P_validate ==
    /\ ppc = "validate" /\ pstack = <<>> /\ pexit = {}
    /\ IF missing_vars_producer(penviron) # {}
       THEN PExit(1, "missing_vars")
       ELSE /\ ppc' = "schema_registry"
            /\ UNCHANGED <<pexit, pwhy, pstack>>
    /\ UNCHANGED <<inputs, penviron, MESSAGE_INTERVAL, pconf, phandlers, pwarned,
                   psignals, phandled, flushCalls, flushLeft, ploop, cvars>>

\* lines 160-163 and 112-115: schema_registry_conf
schema_registry_conf(environ) ==
    [url |-> getenv(environ, "SCHEMA_REGISTRY_URL"),
     key |-> getenv(environ, "SCHEMA_REGISTRY_API_KEY"),
     secret |-> getenv(environ, "SCHEMA_REGISTRY_API_SECRET")]

\* lines 176-184: producer_conf
producer_conf(environ) ==
    [bootstrap |-> getenv(environ, "BOOTSTRAP_SERVER"),
     username |-> getenv(environ, "SASL_USERNAME"),
     password |-> getenv(environ, "SASL_PASSWORD")]

\* lines 160-171: SchemaRegistryClient(...) and AvroSerializer(...); a
\* constructor that raises is not caught
P_schema_registry ==
    /\ ppc = "schema_registry" /\ pstack = <<>> /\ pexit = {}
    /\ \/ /\ pconf' = pconf @@ ("schema_registry" :> schema_registry_conf(penviron))
          /\ ppc' = "producer"
          /\ UNCHANGED <<pexit, pwhy, pstack>>
       \/ /\ PExit(UncaughtStatus("ValueError", 0), "constructor")
          /\ UNCHANGED pconf
    /\ UNCHANGED <<inputs, penviron, MESSAGE_INTERVAL, phandlers, pwarned,
                   psignals, phandled, flushCalls, flushLeft, ploop, cvars>>

\* lines 176-186: SerializingProducer(producer_conf)
P_producer ==
    /\ ppc = "producer" /\ pstack = <<>> /\ pexit = {}
    /\ \/ /\ pconf' = pconf @@ ("producer" :> producer_conf(penviron))
          /\ ppc' = "signal_sigint"
          /\ UNCHANGED <<pexit, pwhy, pstack>>
       \/ /\ PExit(UncaughtStatus("KafkaException", 0), "constructor")
          /\ UNCHANGED pconf
    /\ UNCHANGED <<inputs, penviron, MESSAGE_INTERVAL, phandlers, pwarned,
                   psignals, phandled, flushCalls, flushLeft, ploop, cvars>>

\* line 201: signal.signal(signal.SIGINT, handle_shutdown)
P_signal_sigint ==
    /\ ppc = "signal_sigint" /\ pstack = <<>> /\ pexit = {}
    /\ phandlers' = phandlers \cup {SIGINT}
    /\ ppc' = "signal_sigterm"
    /\ UNCHANGED <<inputs, penviron, MESSAGE_INTERVAL, pconf, pexit, pwhy, pwarned,
                   psig, ploop, cvars>>

\* line 202: signal.signal(signal.SIGTERM, handle_shutdown)
P_signal_sigterm ==
    /\ ppc = "signal_sigterm" /\ pstack = <<>> /\ pexit = {}
    /\ phandlers' = phandlers \cup {SIGTERM}
    /\ ppc' = "main"
    /\ UNCHANGED <<inputs, penviron, MESSAGE_INTERVAL, pconf, pexit, pwhy, pwarned,
                   psig, ploop, cvars>>


(***************************************************************************)
(* Producer: signals and handle_shutdown, lines 191-202.                   *)
(***************************************************************************)
\* the statements of the loop body that stand inside "try:" (lines 249-268)
InTry(pc) == pc \in {"generate", "produce", "poll", "log", "sleep"}

\* an exception raised in the main thread, or in a handler running on it
PRaise(exc, code) ==
    IF InTry(ppc) /\ ExceptClause(exc)
    THEN /\ ppc' = "except"
         /\ pstack' = <<>>
         /\ UNCHANGED <<pexit, pwhy>>
    ELSE PExit(UncaughtStatus(exc, code), exc)

\* lines 227-231: the line delivery_callback prints for one delivery report
delivery_callback(err) == IF err THEN "ERROR" ELSE "INFO"

\* the delivery reports of the records in D (those in errs failed) are
\* served: delivery_callback runs once for each
Serve(D, errs) ==
    /\ pending' = pending \ D
    /\ callbacks' = [id \in DOMAIN callbacks |->
                        IF id \in D
                        THEN Append(callbacks[id], delivery_callback(id \in errs))
                        ELSE callbacks[id]]

\* handle_shutdown without its flush
handle_shutdown_producer_no_flush == <<"notice", "exit">>

\* lines 196-198: the statements of handle_shutdown
handle_shutdown_producer == <<"notice", "flush", "exit">>

PStatement == handle_shutdown_producer[pstack[Len(pstack)]]

\* the next statement of the handler; after the last one the handler returns
\* and the interrupted code goes on
PAdvance ==
    pstack' = IF pstack[Len(pstack)] < Len(handle_shutdown_producer)
              THEN [pstack EXCEPT ![Len(pstack)] = @ + 1]
              ELSE SubSeq(pstack, 1, Len(pstack) - 1)

\* a signal is delivered: handle_shutdown starts on the main thread when it
\* is bound to the signal (lines 201-202); before that SIGINT raises
\* KeyboardInterrupt (status 1, or the signal's status from Python 3.8 on)
\* and SIGTERM terminates the process
P_signal ==
    /\ pexit = {} /\ psignals < MaxSignals
    /\ psignals' = psignals + 1
    /\ \E sig \in Signals :
          IF sig \in phandlers
          THEN /\ pstack' = Append(pstack, 1)
               /\ phandled' = phandled + 1
               /\ UNCHANGED <<ppc, pexit, pwhy>>
          ELSE /\ UNCHANGED phandled
               /\ IF sig = SIGINT
                  THEN IF InTry(ppc) /\ ExceptClause("KeyboardInterrupt")
                       THEN PRaise("KeyboardInterrupt", 1)
                       ELSE \E st \in {1, KilledStatus(SIGINT)} :
                                PExit(st, "KeyboardInterrupt")
                  ELSE PExit(KilledStatus(SIGTERM), "SIGTERM")
    /\ UNCHANGED <<inputs, penviron, MESSAGE_INTERVAL, pconf, phandlers, pwarned,
                   flushCalls, flushLeft, ploop, cvars>>

\* line 196: print("[INFO] Shutdown signal received. Flushing producer.")
P_handle_notice ==
    /\ pexit = {} /\ pstack # <<>> /\ PStatement = "notice"
    /\ PAdvance
    /\ UNCHANGED <<inputs, pstart, psignals, phandled, flushCalls, flushLeft,
                   ploop, cvars>>

\* line 197: producer.flush(timeout=10) serves the delivery reports that
\* arrive within the timeout and returns with the rest still queued
P_handle_flush ==
    /\ pexit = {} /\ pstack # <<>> /\ PStatement = "flush"
    /\ flushCalls' = flushCalls + 1
    /\ \E D \in SUBSET pending, errs \in SUBSET pending :
          /\ errs \subseteq D
          /\ Serve(D, errs)
          /\ flushLeft' = pending \ D
    /\ PAdvance
    /\ UNCHANGED <<inputs, pstart, psignals, phandled, attempts, sleptSince, cvars>>

\* line 198: sys.exit(0) raises SystemExit on the interrupted main thread
P_handle_exit ==
    /\ pexit = {} /\ pstack # <<>> /\ PStatement = "exit"
    /\ PRaise("SystemExit", 0)
    /\ UNCHANGED <<inputs, penviron, MESSAGE_INTERVAL, pconf, phandlers, pwarned,
                   psignals, phandled, flushCalls, flushLeft, ploop, cvars>>

(***************************************************************************)
(* Producer: main, lines 236-272.                                          *)
(***************************************************************************)
PRunning(pc) == ppc = pc /\ pstack = <<>> /\ pexit = {}

\* lines 241-246: the banner
P_main ==
    /\ PRunning("main")
    /\ ppc' = "generate"
    /\ UNCHANGED <<inputs, penviron, MESSAGE_INTERVAL, pconf, phandlers, pexit, pwhy,
                   pwarned, psig, ploop, cvars>>

\* line 251: transaction_record = generate_random_transaction()
P_generate ==
    /\ PRunning("generate") /\ attempts < MaxRecords
    /\ ppc' = "produce"
    /\ UNCHANGED <<inputs, penviron, MESSAGE_INTERVAL, pconf, phandlers, pexit, pwhy,
                   pwarned, psig, ploop, cvars>>

\* lines 254-259: producer.produce(...) queues the record, or raises
\* (BufferError when the local queue is full, KafkaException otherwise)
P_produce ==
    /\ PRunning("produce")
    /\ attempts' = attempts + 1
    /\ sleptSince' = FALSE
    /\ \/ /\ pending' = pending \cup {Len(callbacks) + 1}
          /\ callbacks' = Append(callbacks, <<>>)
          /\ ppc' = "poll"
          /\ UNCHANGED <<pexit, pwhy, pstack>>
       \/ /\ \E exc \in {"BufferError", "KafkaException"} : PRaise(exc, 1)
          /\ UNCHANGED <<pending, callbacks>>
    /\ UNCHANGED <<inputs, penviron, MESSAGE_INTERVAL, pconf, phandlers, pwarned,
                   psignals, phandled, flushCalls, flushLeft, cvars>>

\* line 262: producer.poll(0) serves the delivery reports that are ready
P_poll ==
    /\ PRunning("poll")
    /\ \E D \in SUBSET pending, errs \in SUBSET pending :
          /\ errs \subseteq D
          /\ Serve(D, errs)
    /\ ppc' = "log"
    /\ UNCHANGED <<inputs, penviron, MESSAGE_INTERVAL, pconf, phandlers, pexit, pwhy,
                   pwarned, psig, attempts, sleptSince, cvars>>

\* line 265: print(f"[INFO] Produced record: ...")
P_log ==
    /\ PRunning("log")
    /\ ppc' = "sleep"
    /\ UNCHANGED <<inputs, penviron, MESSAGE_INTERVAL, pconf, phandlers, pexit, pwhy,
                   pwarned, psig, ploop, cvars>>

\* line 268: time.sleep(MESSAGE_INTERVAL); a negative length is a ValueError
P_sleep ==
    /\ PRunning("sleep")
    /\ IF \E i \in MESSAGE_INTERVAL : i < 0
       THEN /\ PRaise("ValueError", 1)
            /\ UNCHANGED sleptSince
       ELSE /\ sleptSince' = TRUE
            /\ ppc' = "generate"
            /\ UNCHANGED <<pexit, pwhy, pstack>>
    /\ UNCHANGED <<inputs, penviron, MESSAGE_INTERVAL, pconf, phandlers, pwarned,
                   psignals, phandled, flushCalls, flushLeft, attempts, pending,
                   callbacks, cvars>>

\* lines 270-272: the except clause logs the exception; the loop goes on
P_except ==
    /\ PRunning("except")
    /\ ppc' = "generate"
    /\ UNCHANGED <<inputs, penviron, MESSAGE_INTERVAL, pconf, phandlers, pexit, pwhy,
                   pwarned, psig, ploop, cvars>>

(***************************************************************************)
(* Consumer: module level, lines 78-150.                                   *)
(***************************************************************************)
CExit(status, why) ==
    /\ cexit' = {status}
    /\ cwhy' = why
    /\ cpc' = "exited"
    /\ cstack' = <<>>

\* line 78: load_environment_file()
C_load_environment_file ==
    /\ cpc = "load" /\ cstack = <<>> /\ cexit = {}
    /\ LET r == load_environment_file(argv, files)
       IN  IF r.exit
           THEN /\ CExit(1, r.cause)
                /\ UNCHANGED cenviron
           ELSE /\ cenviron' = load_dotenv(cenviron, dotenv)
                /\ cpc' = "getenv"
                /\ UNCHANGED <<cexit, cwhy, cstack>>
    /\ UNCHANGED <<inputs, CONSUMER_GROUP, cconf, chandlers, cwarned,
                   csignals, chandled, closeCalls, pollAfterClose, cloop, pvars>>

\* lines 83-91: the module globals
C_getenv ==
    /\ cpc = "getenv" /\ cstack = <<>> /\ cexit = {}
    /\ CONSUMER_GROUP' = getenv(cenviron, "CONSUMER_GROUP")
    /\ cpc' = "validate"
    /\ UNCHANGED <<inputs, cenviron, cconf, chandlers, cexit, cwhy, cwarned,
                   csig, cloop, pvars>>

\* line 99: [v for v in required_vars if not os.getenv(v)]
missing_vars_consumer(environ) ==
    {v \in required_vars : ~Truthy(getenv(environ, v))}

\* lines 99-102
C_validate ==
    /\ cpc = "validate" /\ cstack = <<>> /\ cexit = {}
    /\ IF missing_vars_consumer(cenviron) # {}
       THEN CExit(1, "missing_vars")
       ELSE /\ cpc' = "default_group"
            /\ UNCHANGED <<cexit, cwhy, cstack>>
    /\ UNCHANGED <<inputs, cenviron, CONSUMER_GROUP, cconf, chandlers, cwarned,
                   csignals, chandled, closeCalls, pollAfterClose, cloop, pvars>>

\* "if CONSUMER_GROUP is None" in place of "if not CONSUMER_GROUP"
UseDefaultGroup_is_none(group) == group.none

\* line 105: "if not CONSUMER_GROUP"
UseDefaultGroup(group) == ~Truthy(group)

\* lines 105-107: the default consumer group, with its [WARN] line
C_default_group ==
    /\ cpc = "default_group" /\ cstack = <<>> /\ cexit = {}
    /\ IF UseDefaultGroup(CONSUMER_GROUP)
       THEN /\ CONSUMER_GROUP' = DefaultConsumerGroup
            /\ cwarned' = cwarned + 1
       ELSE UNCHANGED <<CONSUMER_GROUP, cwarned>>
    /\ cpc' = "schema_registry"
    /\ UNCHANGED <<inputs, cenviron, cconf, chandlers, cexit, cwhy, csig, cloop, pvars>>

\* lines 124-134: consumer_conf
consumer_conf(environ, group) ==
    [bootstrap |-> getenv(environ, "BOOTSTRAP_SERVER"),
     username |-> getenv(environ, "SASL_USERNAME"),
     password |-> getenv(environ, "SASL_PASSWORD"),
     group |-> group]

\* lines 112-119: SchemaRegistryClient(...) and AvroDeserializer(...)
C_schema_registry ==
    /\ cpc = "schema_registry" /\ cstack = <<>> /\ cexit = {}
    /\ \/ /\ cconf' = cconf @@ ("schema_registry" :> schema_registry_conf(cenviron))
          /\ cpc' = "consumer"
          /\ UNCHANGED <<cexit, cwhy, cstack>>
       \/ /\ CExit(UncaughtStatus("ValueError", 0), "constructor")
          /\ UNCHANGED cconf
    /\ UNCHANGED <<inputs, cenviron, CONSUMER_GROUP, chandlers, cwarned,
                   csignals, chandled, closeCalls, pollAfterClose, cloop, pvars>>

\* lines 124-136: DeserializingConsumer(consumer_conf)
C_consumer ==
    /\ cpc = "consumer" /\ cstack = <<>> /\ cexit = {}
    /\ \/ /\ cconf' = cconf @@ ("consumer" :> consumer_conf(cenviron, CONSUMER_GROUP))
          /\ cpc' = "signal_sigint"
          /\ UNCHANGED <<cexit, cwhy, cstack>>
       \/ /\ CExit(UncaughtStatus("KafkaException", 0), "constructor")
          /\ UNCHANGED cconf
    /\ UNCHANGED <<inputs, cenviron, CONSUMER_GROUP, chandlers, cwarned,
                   csignals, chandled, closeCalls, pollAfterClose, cloop, pvars>>

\* line 149: signal.signal(signal.SIGINT, handle_shutdown)
C_signal_sigint ==
    /\ cpc = "signal_sigint" /\ cstack = <<>> /\ cexit = {}
    /\ chandlers' = chandlers \cup {SIGINT}
    /\ cpc' = "signal_sigterm"
    /\ UNCHANGED <<inputs, cenviron, CONSUMER_GROUP, cconf, cexit, cwhy, cwarned,
                   csig, cloop, pvars>>

\* line 150: signal.signal(signal.SIGTERM, handle_shutdown)
C_signal_sigterm ==
    /\ cpc = "signal_sigterm" /\ cstack = <<>> /\ cexit = {}
    /\ chandlers' = chandlers \cup {SIGTERM}
    /\ cpc' = "main"
    /\ UNCHANGED <<inputs, cenviron, CONSUMER_GROUP, cconf, cexit, cwhy, cwarned,
                   csig, cloop, pvars>>

(***************************************************************************)
(* Consumer: signals and handle_shutdown, lines 141-150.                   *)
(***************************************************************************)
\* handle_shutdown without its sys.exit(0)
handle_shutdown_consumer_no_exit == <<"notice", "close">>

\* lines 145-147: the statements of handle_shutdown
handle_shutdown_consumer == <<"notice", "close", "exit">>

CStatement == handle_shutdown_consumer[cstack[Len(cstack)]]

\* the next statement of the handler; after the last one the handler returns
\* and the interrupted code goes on
CAdvance ==
    cstack' = IF cstack[Len(cstack)] < Len(handle_shutdown_consumer)
              THEN [cstack EXCEPT ![Len(cstack)] = @ + 1]
              ELSE SubSeq(cstack, 1, Len(cstack) - 1)

\* a signal is delivered: handle_shutdown starts on the main thread when it
\* is bound to the signal (lines 149-150); before that SIGINT raises
\* KeyboardInterrupt and SIGTERM terminates the process
C_signal ==
    /\ cexit = {} /\ csignals < MaxSignals
    /\ csignals' = csignals + 1
    /\ \E sig \in Signals :
          IF sig \in chandlers
          THEN /\ cstack' = Append(cstack, 1)
               /\ chandled' = chandled + 1
               /\ UNCHANGED <<cpc, cexit, cwhy>>
          ELSE /\ UNCHANGED chandled
               /\ IF sig = SIGINT
                  THEN \E st \in {1, KilledStatus(SIGINT)} :
                           CExit(st, "KeyboardInterrupt")
                  ELSE CExit(KilledStatus(SIGTERM), "SIGTERM")
    /\ UNCHANGED <<inputs, cenviron, CONSUMER_GROUP, cconf, chandlers, cwarned,
                   closeCalls, pollAfterClose, cloop, pvars>>

\* line 145: print("[INFO] Shutdown signal received. Closing consumer.")
C_handle_notice ==
    /\ cexit = {} /\ cstack # <<>> /\ CStatement = "notice"
    /\ CAdvance
    /\ UNCHANGED <<inputs, cstart, csignals, chandled, closeCalls, pollAfterClose,
                   cloop, pvars>>

\* line 146: consumer.close(); on a consumer that is closed already the
\* call returns or raises RuntimeError, by the version of the library
C_handle_close ==
    /\ cexit = {} /\ cstack # <<>> /\ CStatement = "close"
    /\ closeCalls' = closeCalls + 1
    /\ \/ /\ CAdvance
          /\ UNCHANGED <<cpc, cexit, cwhy>>
       \/ /\ closeCalls > 0
          /\ CExit(UncaughtStatus("RuntimeError", 1), "RuntimeError")
    /\ UNCHANGED <<inputs, cenviron, CONSUMER_GROUP, cconf, chandlers, cwarned,
                   csignals, chandled, pollAfterClose, cloop, pvars>>

\* line 147: sys.exit(0); nothing in the consumer catches SystemExit
C_handle_exit ==
    /\ cexit = {} /\ cstack # <<>> /\ CStatement = "exit"
    /\ CExit(UncaughtStatus("SystemExit", 0), "SystemExit")
    /\ UNCHANGED <<inputs, cenviron, CONSUMER_GROUP, cconf, chandlers, cwarned,
                   csignals, chandled, closeCalls, pollAfterClose, cloop, pvars>>

(***************************************************************************)
(* Consumer: main, lines 155-189.                                          *)
(***************************************************************************)
CRunning(pc) == cpc = pc /\ cstack = <<>> /\ cexit = {}

NoMessage == [none |-> TRUE, error |-> "NO_ERROR"]

\* what consumer.poll returns: None, a record, the end-of-partition marker
\* or a message that carries another error
PollResults ==
    {NoMessage} \cup
    {[none |-> FALSE, error |-> e] :
        e \in {"NO_ERROR", "_PARTITION_EOF", "_TRANSPORT", "UNKNOWN_TOPIC_OR_PART"}}

\* lines 160-166: the banner and consumer.subscribe([TOPIC_NAME])
C_main ==
    /\ CRunning("main")
    /\ subscribed' = TRUE
    /\ cpc' = "poll"
    /\ UNCHANGED <<inputs, cenviron, CONSUMER_GROUP, cconf, chandlers, cexit, cwhy,
                   cwarned, csig, polls, msg, errorsLogged, recordsLogged, eofSeen,
                   errSeen, pvars>>

\* line 170: msg = consumer.poll(timeout=1.0)
C_poll ==
    /\ CRunning("poll") /\ polls < MaxPolls
    /\ polls' = polls + 1
    /\ pollAfterClose' = (pollAfterClose \/ closeCalls > 0)
    /\ \E m \in PollResults :
          /\ msg' = m
          /\ eofSeen' = eofSeen + (IF m.error = "_PARTITION_EOF" THEN 1 ELSE 0)
          /\ errSeen' = errSeen +
                (IF m.error \notin {"NO_ERROR", "_PARTITION_EOF"} THEN 1 ELSE 0)
    /\ cpc' = "dispatch"
    /\ UNCHANGED <<inputs, cenviron, CONSUMER_GROUP, cconf, chandlers, cexit, cwhy,
                   cwarned, cstack, csignals, chandled, closeCalls, subscribed,
                   errorsLogged, recordsLogged, pvars>>

\* the partition-EOF test left out: every error is logged
classify_eof_is_error(m) ==
    IF m.none THEN "continue"
    ELSE IF m.error # "NO_ERROR" THEN "log_error"
    ELSE "log_record"

\* the "continue" after the [ERROR] line left out
classify_error_falls_through(m) ==
    IF m.none THEN "continue"
    ELSE IF m.error # "NO_ERROR"
         THEN IF m.error = "_PARTITION_EOF" THEN "continue" ELSE "log_both"
    ELSE "log_record"

\* lines 171-189: what the loop body does with a poll result
classify(m) ==
    IF m.none THEN "continue"
    ELSE IF m.error # "NO_ERROR"
         THEN IF m.error = "_PARTITION_EOF" THEN "continue" ELSE "log_error"
    ELSE "log_record"

\* lines 171-189: the rest of the iteration, then back to the poll
C_dispatch ==
    /\ CRunning("dispatch")
    /\ errorsLogged' = errorsLogged +
          (IF classify(msg) \in {"log_error", "log_both"} THEN 1 ELSE 0)
    /\ recordsLogged' = recordsLogged +
          (IF classify(msg) \in {"log_record", "log_both"} THEN 1 ELSE 0)
    /\ cpc' = "poll"
    /\ UNCHANGED <<inputs, cenviron, CONSUMER_GROUP, cconf, chandlers, cexit, cwhy,
                   cwarned, csig, subscribed, polls, msg, eofSeen, errSeen, pvars>>

(***************************************************************************)
(* Inputs: the command line, the files present, the lines of the           *)
(* environment file and the variables the process inherits.                *)
(***************************************************************************)
Set == Str(<<"v">>)

Empty == Str(<<>>)

Selectors == {east, west,
              <<"E", "A", "S", "T">>, <<"W", "e", "s", "t">>,
              <<"n", "o", "r", "t", "h">>, <<>>, <<"e", "a", "s", "t", " ">>}

Argvs == {<<>>} \cup {<<a>> : a \in Selectors} \cup {<<west, <<"x">>>>}

FileNames == {dot_env, east \o dot_env, west \o dot_env}

AllSet == [k \in Keys |-> IF k \in required_vars THEN Set ELSE None]

NoTopic == [AllSet EXCEPT !["TOPIC_NAME"] = None]

EmptyEnviron == [k \in Keys |-> None]

InheritedEnviron == [EmptyEnviron EXCEPT !["TOPIC_NAME"] = Str(<<"t", "0">>),
                                         !["CONSUMER_GROUP"] = Str(<<"g", "0">>),
                                         !["MESSAGE_INTERVAL"] = Str(<<"4">>)]

GroupValues == {None, Empty, Str(<<"g">>), DefaultConsumerGroup}

IntervalValues == {None, Empty, Str(<<"1", ".", "0">>), Str(<<"2">>),
                   Str(<<"0", ".", "5">>), Str(<<"-", "1">>), Str(<<"a", "b", "c">>),
                   Str(<<" ", "3", " ">>), Str(<<"1", ".", "0", ".", "0">>),
                   Str(<<"2", ".", "5", "0">>)}

InitProcesses ==
    /\ ppc = "load" /\ MESSAGE_INTERVAL = {} /\ pconf = <<>> /\ phandlers = {}
    /\ pstack = <<>> /\ pexit = {} /\ pwhy = "running" /\ pwarned = 0 /\ psignals = 0
    /\ phandled = 0 /\ chandled = 0
    /\ attempts = 0 /\ pending = {} /\ callbacks = <<>>
    /\ sleptSince = FALSE /\ flushCalls = 0 /\ flushLeft = {}
    /\ cpc = "load" /\ CONSUMER_GROUP = None /\ cconf = <<>> /\ chandlers = {}
    /\ cstack = <<>> /\ cexit = {} /\ cwhy = "running" /\ cwarned = 0 /\ csignals = 0
    /\ subscribed = FALSE /\ polls = 0 /\ msg = NoMessage
    /\ errorsLogged = 0 /\ recordsLogged = 0 /\ eofSeen = 0 /\ errSeen = 0
    /\ closeCalls = 0 /\ pollAfterClose = FALSE

\* every selector against every set of files present
InitSelectors ==
    /\ argv \in Argvs
    /\ files \in SUBSET FileNames
    /\ dotenv \in {AllSet, NoTopic}
    /\ penviron = EmptyEnviron

\* every assignment of the seven required keys
InitRequired ==
    /\ argv = <<>>
    /\ files = {dot_env}
    /\ dotenv \in [Keys -> {None, Empty, Set}]
    /\ \A k \in Keys \ required_vars : dotenv[k] = None
    /\ penviron \in {EmptyEnviron, InheritedEnviron}

\* every value of the two optional keys
InitOptional ==
    /\ argv = <<>>
    /\ files = {dot_env}
    /\ \E g \in GroupValues, i \in IntervalValues :
           dotenv = [AllSet EXCEPT !["CONSUMER_GROUP"] = g, !["MESSAGE_INTERVAL"] = i]
    /\ penviron \in {EmptyEnviron, InheritedEnviron}

Init ==
    /\ InitSelectors \/ InitRequired \/ InitOptional
    /\ cenviron = penviron
    /\ InitProcesses

\* the start-up of both scripts on the same inputs, no signal delivered
Startup ==
    \/ P_load_environment_file
    \/ P_getenv
    \/ P_validate
    \/ P_schema_registry
    \/ P_producer
    \/ P_signal_sigint
    \/ P_signal_sigterm
    \/ C_load_environment_file
    \/ C_getenv
    \/ C_validate
    \/ C_default_group
    \/ C_schema_registry
    \/ C_consumer
    \/ C_signal_sigint
    \/ C_signal_sigterm

Spec == Init /\ [][Startup]_vars

(***************************************************************************)
(* The producer alone, with signals.                                       *)
(***************************************************************************)
InitProducer ==
    /\ argv \in {<<>>, <<<<"n", "o", "r", "t", "h">>>>, <<<<"E", "A", "S", "T">>>>}
    /\ files \in {{dot_env}, {east \o dot_env}}
    /\ \/ dotenv = NoTopic
       \/ \E i \in {None, Str(<<"0", ".", "5">>), Str(<<"-", "1">>), Str(<<"a", "b", "c">>)} :
              dotenv = [AllSet EXCEPT !["MESSAGE_INTERVAL"] = i]
    /\ penviron = EmptyEnviron
    /\ cenviron = penviron
    /\ InitProcesses

Producer ==
    \/ P_load_environment_file
    \/ P_getenv
    \/ P_validate
    \/ P_schema_registry
    \/ P_producer
    \/ P_signal_sigint
    \/ P_signal_sigterm
    \/ P_signal
    \/ P_handle_notice
    \/ P_handle_flush
    \/ P_handle_exit
    \/ P_main
    \/ P_generate
    \/ P_produce
    \/ P_poll
    \/ P_log
    \/ P_sleep
    \/ P_except

SpecProducer == InitProducer /\ [][Producer]_vars

\* handle_shutdown runs its statements one after the other on the main
\* thread, and flush returns when its timeout expires at the latest
SpecProducerLive ==
    /\ SpecProducer
    /\ WF_vars(P_handle_notice)
    /\ WF_vars(P_handle_flush)
    /\ WF_vars(P_handle_exit)


(***************************************************************************)
(* The consumer alone, with signals.                                       *)
(***************************************************************************)
InitConsumer ==
    /\ argv \in {<<>>, <<<<"n", "o", "r", "t", "h">>>>, <<<<"W", "e", "s", "t">>>>}
    /\ files \in {{dot_env}, {west \o dot_env}}
    /\ \/ dotenv = NoTopic
       \/ \E g \in {None, Empty, Str(<<"g">>)} :
              dotenv = [AllSet EXCEPT !["CONSUMER_GROUP"] = g]
    /\ penviron = EmptyEnviron
    /\ cenviron = penviron
    /\ InitProcesses

Consumer ==
    \/ C_load_environment_file
    \/ C_getenv
    \/ C_validate
    \/ C_default_group
    \/ C_schema_registry
    \/ C_consumer
    \/ C_signal_sigint
    \/ C_signal_sigterm
    \/ C_signal
    \/ C_handle_notice
    \/ C_handle_close
    \/ C_handle_exit
    \/ C_main
    \/ C_poll
    \/ C_dispatch

SpecConsumer == InitConsumer /\ [][Consumer]_vars

\* handle_shutdown runs its statements one after the other on the main thread
SpecConsumerLive ==
    /\ SpecConsumer
    /\ WF_vars(C_handle_notice)
    /\ WF_vars(C_handle_close)
    /\ WF_vars(C_handle_exit)

(***************************************************************************)
(* Start-up claims, checked under Spec.                                    *)
(***************************************************************************)
SelectorGiven == Len(argv) > 0

\* the file a run is meant to read, by the usage text
SelectedFile == IF SelectorGiven THEN lower(argv[1]) \o dot_env ELSE dot_env

PLoaded == ppc # "load"

CLoaded == cpc # "load"

NoClient == pconf = <<>> /\ cconf = <<>>

BothExited1 == (PLoaded => pexit = {1}) /\ (CLoaded => cexit = {1})

\* C1 as stated: a selector that is not literally east or west, or a
\* missing file, ends both processes with status 1 and no client.
C1_AsStated ==
    LET outside == SelectorGiven /\ argv[1] \notin {east, west}
        missing == ~outside /\ SelectedFile \notin files
    IN  (outside \/ missing) => (NoClient /\ BothExited1)

\* C1: when the selector, lower-cased, is outside {east, west}, or the
\* selected file (east.env, west.env or .env) does not exist, both processes
\* exit with status 1 and no schema-registry or broker client is constructed.
C1_ExitBeforeClients ==
    LET outside == SelectorGiven /\ lower(argv[1]) \notin {east, west}
        missing == ~outside /\ SelectedFile \notin files
    IN  (outside \/ missing) => (NoClient /\ BothExited1)

C1_Witness ==
    /\ SelectorGiven /\ lower(argv[1]) \in {east, west} /\ SelectedFile \notin files
    /\ NoClient /\ pexit = {1} /\ cexit = {1}
    /\ pwhy = "file" /\ cwhy = "file"

Usable(environ) == \A k \in required_vars : Truthy(environ[k])

PValidated == ppc \notin {"load", "getenv", "validate"}

CValidated == cpc \notin {"load", "getenv", "validate"}

\* C2: after the environment file is loaded, a missing or invalid (empty)
\* required key ends the process with status 1 before any client is
\* constructed, and a client is constructed only when every required key
\* holds a usable value.
C2_RequiredKeysGuardClients ==
    /\ (PValidated /\ ~Usable(penviron)) => (pexit = {1} /\ pconf = <<>>)
    /\ (CValidated /\ ~Usable(cenviron)) => (cexit = {1} /\ cconf = <<>>)
    /\ pconf # <<>> => Usable(penviron)
    /\ cconf # <<>> => Usable(cenviron)

\* the required-key check was run, and this is why the process ended
PCheckFailed == pwhy = "missing_vars"

CCheckFailed == cwhy = "missing_vars"

\* the required-key check has been run on the loaded environment
PChecked == PValidated /\ pwhy \notin {"selector", "file", "ValueError"}

CChecked == CValidated /\ cwhy \notin {"selector", "file"}

\* C10: on the same assignment of the required keys, the producer's check
\* exits with status 1 exactly when the consumer's check does.
C10_SameRequiredKeyCheck ==
    (PChecked /\ CChecked /\ penviron = cenviron) => (PCheckFailed <=> CCheckFailed)

\* thousandths of a second each interval literal of the inputs denotes
Denotes(v) ==
    CASE v = Str(<<"1", ".", "0">>) -> {1000}
      [] v = Str(<<"2">>) -> {2000}
      [] v = Str(<<"0", ".", "5">>) -> {500}
      [] v = Str(<<"-", "1">>) -> {0 - 1000}
      [] v = Str(<<" ", "3", " ">>) -> {3000}
      [] v = Str(<<"2", ".", "5", "0">>) -> {2500}
      [] v = Str(<<"4">>) -> {4000}
      [] OTHER -> {}

PConfigured == ppc \notin {"load", "getenv"}

CConfigured == cpc \notin {"load", "getenv", "validate", "default_group"} /\ cconf # <<>>

\* C3 as stated: the default is taken exactly when the key is absent, with
\* a warning, and a key that is present is used unchanged.
C3_AsStated ==
    /\ (CConfigured /\ Usable(cenviron)) =>
           /\ cenviron["CONSUMER_GROUP"].none <=> cwarned = 1
           /\ cenviron["CONSUMER_GROUP"].none => CONSUMER_GROUP = DefaultConsumerGroup
           /\ ~cenviron["CONSUMER_GROUP"].none =>
                  CONSUMER_GROUP = cenviron["CONSUMER_GROUP"]
    /\ (PConfigured /\ Usable(penviron) /\ MESSAGE_INTERVAL # {}) =>
           /\ penviron["MESSAGE_INTERVAL"].none <=> pwarned = 1
           /\ penviron["MESSAGE_INTERVAL"].none => MESSAGE_INTERVAL = {1000}

\* C3: with all required keys set, the consumer takes 'demo-dr-consumer-group'
\* and prints one [WARN] line exactly when CONSUMER_GROUP is absent or empty,
\* and otherwise uses the configured value unchanged; the producer takes 1.0
\* when MESSAGE_INTERVAL is absent and otherwise the float the configured
\* text denotes, prints no warning, and ends with status 1 (ValueError)
\* before any client is constructed when the text is no float literal.
C3_OptionalDefaults ==
    /\ (CConfigured /\ Usable(cenviron)) =>
           LET g == cenviron["CONSUMER_GROUP"]
           IN  /\ (g.none \/ g = Empty) <=> cwarned = 1
               /\ (g.none \/ g = Empty) => CONSUMER_GROUP = DefaultConsumerGroup
               /\ ~(g.none \/ g = Empty) => CONSUMER_GROUP = g
    /\ (PConfigured /\ Usable(penviron)) =>
           LET i == penviron["MESSAGE_INTERVAL"]
           IN  /\ pwarned = 0
               /\ MESSAGE_INTERVAL = (IF i.none THEN {1000} ELSE Denotes(i))
               /\ MESSAGE_INTERVAL = {} <=> (pwhy = "ValueError")
               /\ MESSAGE_INTERVAL = {} => (pexit = {1} /\ pconf = <<>>)

C3_Witness ==
    /\ CConfigured /\ Usable(cenviron)
    /\ cenviron["CONSUMER_GROUP"] = Empty /\ CONSUMER_GROUP = DefaultConsumerGroup
    /\ cwarned = 1
    /\ PConfigured /\ penviron["MESSAGE_INTERVAL"] = Str(<<"0", ".", "5">>)
    /\ MESSAGE_INTERVAL = {500}


(***************************************************************************)
(* Producer claims, checked under SpecProducer and SpecProducerLive.       *)
(***************************************************************************)
\* C4 as stated: a signal received at any point, start-up included, is
\* answered by a flush and exit status 0.
C4_AsStated ==
    (psignals > 0 /\ pexit # {}) => (pexit = {0} /\ flushCalls >= 1)

\* both handlers are bound (line 202 has run) and handle_shutdown has started
PShutdown == phandled > 0 /\ phandlers = Signals

\* C4: once SIGINT or SIGTERM is received after both handlers are installed,
\* wherever the main thread stands (banner, try block, sleep, except
\* clause), handle_shutdown calls producer.flush, the process then exits
\* with status 0, and no further produce is attempted.  A signal received
\* before its handler is installed ends the process with a non-zero status,
\* and only handle_shutdown calls flush.
C4_ShutdownFlushesThenExits ==
    /\ [][PShutdown =>
            /\ attempts' = attempts
            /\ pexit' = {} => pstack' # <<>>
            /\ pexit' # {} => (pexit' = {0} /\ flushCalls' >= 1)]_vars
    /\ [](flushCalls <= phandled)
    /\ [](pwhy \in {"KeyboardInterrupt", "SIGTERM"} => 0 \notin pexit)
    /\ (PShutdown ~> pexit = {0})

C4_Witness ==
    /\ PShutdown /\ pexit = {0} /\ flushCalls >= 1
    /\ attempts >= 1 /\ ~sleptSince

\* C8 as stated: when the process has exited, every accepted record has had
\* its delivery callback invoked exactly once.
C8_AsStated ==
    pexit # {} => \A id \in DOMAIN callbacks : Len(callbacks[id]) = 1

\* C8: every accepted record has its delivery callback invoked at most
\* once, logging the success or the error; a record without an outcome is
\* still queued, and when the process has exited the records without an
\* outcome are exactly those the last flush left queued when it returned.
C8_DeliveryOutcomes ==
    /\ \A id \in DOMAIN callbacks :
           /\ Len(callbacks[id]) <= 1
           /\ Len(callbacks[id]) = 0 <=> id \in pending
           /\ \A i \in 1..Len(callbacks[id]) : callbacks[id][i] \in {"INFO", "ERROR"}
    /\ pexit # {} => (pending = flushLeft /\ (callbacks # <<>> => flushCalls >= 1))

C8_Witness ==
    /\ pexit = {0} /\ Len(callbacks) = 2
    /\ callbacks[1] = <<"ERROR">> /\ flushLeft = {2}

\* C9: no two produce attempts without a completed sleep of
\* MESSAGE_INTERVAL between them, also when the except clause has caught an
\* exception of the iteration.
C9_AsStated ==
    [][attempts' # attempts => (attempts = 0 \/ sleptSince)]_vars


(***************************************************************************)
(* Consumer claims, checked under SpecConsumer and SpecConsumerLive.       *)
(***************************************************************************)
\* C5 as stated: a signal received at any point, start-up included, is
\* answered by exactly one consumer.close and exit status 0, and no poll
\* follows the close.
C5_AsStated ==
    /\ (csignals > 0 /\ cexit # {}) => (cexit = {0} /\ closeCalls = 1)
    /\ ~pollAfterClose

\* both handlers are bound (line 150 has run) and handle_shutdown has started
CShutdown == chandled > 0 /\ chandlers = Signals

\* C5: once SIGINT or SIGTERM is received after both handlers are installed,
\* wherever the main thread stands, handle_shutdown calls consumer.close,
\* the process terminates and no poll is issued after the close.  With one
\* signal close is called exactly once and the status is 0; a signal that
\* interrupts handle_shutdown re-enters it, so close is called at most once
\* per signal, and the status is 1 only when a repeated close has raised.  A
\* signal received before its handler is installed ends the process with a
\* non-zero status, and only handle_shutdown calls close.
C5_ShutdownClosesThenExits ==
    /\ [][CShutdown =>
            /\ polls' = polls
            /\ cexit' = {} => cstack' # <<>>
            /\ cexit' # {} =>
                  /\ closeCalls' \in 1..chandled'
                  /\ chandled' = 1 => (closeCalls' = 1 /\ cexit' = {0})
                  /\ cexit' \subseteq {0, 1}
                  /\ cexit' = {1} => closeCalls' >= 2]_vars
    /\ [](~pollAfterClose)
    /\ [](closeCalls <= chandled)
    /\ [](cwhy \in {"KeyboardInterrupt", "SIGTERM"} => 0 \notin cexit)
    /\ (CShutdown ~> cexit # {})

C5_Witness ==
    /\ CShutdown /\ chandled = 1 /\ closeCalls = 1 /\ cexit = {0}
    /\ polls >= 1 /\ ~pollAfterClose

IsEOF(m) == ~m.none /\ m.error = "_PARTITION_EOF"

IsOtherError(m) == ~m.none /\ m.error \notin {"NO_ERROR", "_PARTITION_EOF"}

IsRecord(m) == ~m.none /\ m.error = "NO_ERROR"

\* the main thread finishes the iteration of the poll result in msg
Dispatches == cpc = "dispatch" /\ cstack = <<>> /\ cpc' # cpc

\* C6: a poll result that carries the end-of-partition marker is never
\* logged as an error and never ends the loop: control returns to the poll.
C6_EofIsNoError ==
    /\ [][(Dispatches /\ IsEOF(msg)) =>
            /\ errorsLogged' = errorsLogged
            /\ recordsLogged' = recordsLogged
            /\ cpc' = "poll" /\ cexit' = {}]_vars
    /\ [](errorsLogged <= errSeen)

C6_Witness ==
    /\ eofSeen >= 1 /\ IsEOF(msg) /\ cpc = "poll" /\ cexit = {}
    /\ errorsLogged = 0 /\ polls = 1

=============================================================================
